---- MODULE Spec2Model ----
\* Physical planner of the plan package (src/plan/physical.go): planner
\* construction, the Plan pipeline, the physical-validation walk and the
\* logical->physical conversion rule, over a heap of plan nodes addressed by
\* their position (a Go pointer is a heap address).
EXTENDS Integers, Sequences, FiniteSets, TLC

\* ---------------------------------------------------------------- bounds
\* Largest number of nodes of an input graph given to Plan.
MaxNodes == 2
\* Largest number of options given to NewPhysicalPlanner.
MaxOptions == 2
\* Largest number of nodes of a graph the conversion rule is applied to directly.
MaxRuleNodes == 3
\* The heuristic planner's safety bound on the number of full passes.
MaxPasses == 3

\* Plan calls made in a row on one planner, each on the graph the last returned.
MaxCalls == 2

\* ---------------------------------------------------------------- values
\* An int64 as four 16-bit limbs, most significant first.
Int64(n) == <<0, 0, 0, n>>

Zero64 == Int64(0)

\* math.MaxInt64 = 2^63 - 1.
MaxInt64 == <<32767, 65535, 65535, 65535>>

\* A nil error, and the errors Plan can return.
NoErr == [kind |-> "nil", node |-> <<>>]

Err(k, id) == [kind |-> k, node |-> id]

\* The bounds of a node: a nil *Bounds, or a start and a stop.
NilBounds == [set |-> FALSE, start |-> 0, stop |-> 0]

Bounds(a, b) == [set |-> TRUE, start |-> a, stop |-> b]

\* A ProcedureSpec, by the interfaces it implements: PhysicalProcedureSpec
\* (physical), PostPhysicalValidator (validator: "none" when not implemented,
\* else what PostPhysicalValidate returns), and whether computing its bounds fails.
ProcSpec(p, v, b) == [physical |-> p, validator |-> v, boundsErr |-> b]

LogicalSpecs ==
    { ProcSpec(FALSE, "none", FALSE), ProcSpec(TRUE, "none", FALSE),
      ProcSpec(FALSE, "ok", FALSE), ProcSpec(FALSE, "fail", FALSE),
      ProcSpec(TRUE, "ok", FALSE), ProcSpec(TRUE, "fail", FALSE),
      ProcSpec(TRUE, "none", TRUE) }

\* PhysicalPlanNode.Spec is a PhysicalProcedureSpec.
PhysicalSpecs == { s \in LogicalSpecs : s.physical /\ ~s.boundsErr }

\* The identifier of the i-th input node.
NodeID(i) == << "N", ToString(i) >>

\* ---------------------------------------------------------------- helpers
Range(s) == { s[i] : i \in 1..Len(s) }

Min(S) == CHOOSE x \in S : \A y \in S : x <= y

Max(S) == CHOOSE x \in S : \A y \in S : x >= y

RECURSIVE SortedSeq(_)
SortedSeq(S) == IF S = {} THEN <<>> ELSE <<Min(S)>> \o SortedSeq(S \ {Min(S)})

\* s with every occurrence of old replaced by new, order kept.
Redirect(s, old, new) == [i \in 1..Len(s) |-> IF s[i] = old THEN new ELSE s[i]]

\* ---------------------------------------------------------------- state
VARIABLES
    ruleNameToPhysicalRule, \* the registry of physical rules (a set of rule names)
    options,                \* the options given to NewPhysicalPlanner
    applied,                \* how many of the options have been applied to pp
    pp,                     \* the physicalPlanner built from them
    heap,                   \* every PlanNode allocated so far, by address
    spec,                   \* the PlanSpec being planned: Roots and Resources
    input,                  \* the heap and the PlanSpec as they were given to Plan
    calls,                  \* the number of Plan calls started
    pc,                     \* the position inside Plan
    todo,                   \* heuristic planner: nodes left to visit in this pass
    ruleIdx,                \* heuristic planner: next rule to try on Head(todo)
    anyChanged,             \* heuristic planner: a rule changed something this pass
    passes,                 \* heuristic planner: full passes started so far
    lastCall,               \* the last Rule.Rewrite call: arguments, result, heap before
    ret                     \* what Plan returned: a graph (or nil) and an error

vars == << ruleNameToPhysicalRule, options, applied, pp, heap, spec, input, calls, pc, todo,
           ruleIdx, anyChanged, passes, lastCall, ret >>

\* ---------------------------------------------------------------- plan graph
\* The nodes reachable from the roots through predecessor edges.
RECURSIVE ReachFrom(_, _)
ReachFrom(h, S) ==
    LET T == S \cup UNION { Range(h[n].preds) : n \in S }
    IN IF T = S THEN S ELSE ReachFrom(h, T)

Reachable(h, roots) == ReachFrom(h, roots)

\* The strict ancestors of n: what a bottom-up walk visits before n.
Ancestors(h, n) == ReachFrom(h, Range(h[n].preds))

\* A bottom-up order of the reachable nodes: predecessors first, and among
\* the nodes that are ready the lowest address first.
RECURSIVE BottomUpFrom(_, _, _)
BottomUpFrom(h, all, placed) ==
    LET ready == { n \in all \ Range(placed) : Range(h[n].preds) \subseteq Range(placed) }
    IN IF ready = {} THEN placed
       ELSE BottomUpFrom(h, all, Append(placed, Min(ready)))

BottomUpOrder(h, roots) == BottomUpFrom(h, Reachable(h, roots), <<>>)

\* ReplaceNode(oldNode, newNode): newNode takes oldNode's edges, every
\* neighbour's reference to oldNode becomes one to newNode, oldNode is detached.
ReplaceNode(h, old, new) ==
    [a \in 1..Len(h) |->
        IF a = new THEN [h[a] EXCEPT !.preds = h[old].preds, !.succs = h[old].succs]
        ELSE IF a = old THEN [h[a] EXCEPT !.preds = <<>>, !.succs = <<>>]
        ELSE [h[a] EXCEPT
                !.succs = IF a \in Range(h[old].preds)
                          THEN Redirect(h[a].succs, old, new) ELSE h[a].succs,
                !.preds = IF a \in Range(h[old].succs)
                          THEN Redirect(h[a].preds, old, new) ELSE h[a].preds]]

\* ---------------------------------------------------------------- conversion rule
\* "phys_" + ln.id
PhysID(id) == << "phys_" >> \o id

\* Mutant: the new node does not take the logical node's bounds.
NewPhysicalNode_NoBounds(ln) ==
    [typ |-> "physical", bounds |-> NilBounds, id |-> PhysID(ln.id),
     spec |-> ln.spec, preds |-> <<>>, succs |-> <<>>]

\* The PhysicalPlanNode literal of Rewrite: bounds, id and Spec of the logical
\* node, no edges yet.
NewPhysicalNode(ln) ==
    [typ |-> "physical", bounds |-> ln.bounds, id |-> PhysID(ln.id),
     spec |-> ln.spec, preds |-> <<>>, succs |-> <<>>]

\* The result of a Rule.Rewrite call: the heap after it, the node returned,
\* changed, and the error.
RewriteResult(h, n, c, e) == [heap |-> h, node |-> n, changed |-> c, err |-> e]

\* Mutant: the "already converted" test is missing.
ConverterRewrite_NoPhysicalCheck(h, pn) ==
    IF ~h[pn].spec.physical
    THEN RewriteResult(h, pn, FALSE, NoErr)
    ELSE LET new == Len(h) + 1
         IN RewriteResult(ReplaceNode(Append(h, NewPhysicalNode(h[pn])), pn, new),
                          new, TRUE, NoErr)

\* Mutant: a logical node is converted whether or not its spec is physical-capable.
ConverterRewrite_NoCapabilityCheck(h, pn) ==
    IF h[pn].typ = "physical"
    THEN RewriteResult(h, pn, FALSE, NoErr)
    ELSE LET new == Len(h) + 1
         IN RewriteResult(ReplaceNode(Append(h, NewPhysicalNode(h[pn])), pn, new),
                          new, TRUE, NoErr)

\* Mutant: a node that is already physical is reported as changed.
ConverterRewrite_AlwaysChanged(h, pn) ==
    IF h[pn].typ = "physical"
    THEN RewriteResult(h, pn, TRUE, NoErr)
    ELSE IF ~h[pn].spec.physical
    THEN RewriteResult(h, pn, FALSE, NoErr)
    ELSE LET new == Len(h) + 1
         IN RewriteResult(ReplaceNode(Append(h, NewPhysicalNode(h[pn])), pn, new),
                          new, TRUE, NoErr)

\* Mutant: the new node is returned without ReplaceNode being called.
ConverterRewrite_NoReplace(h, pn) ==
    IF h[pn].typ = "physical"
    THEN RewriteResult(h, pn, FALSE, NoErr)
    ELSE IF ~h[pn].spec.physical
    THEN RewriteResult(h, pn, FALSE, NoErr)
    ELSE RewriteResult(Append(h, NewPhysicalNode(h[pn])), Len(h) + 1, TRUE, NoErr)

\* physicalConverterRule.Rewrite(pn)
ConverterRewrite(h, pn) ==
    IF h[pn].typ = "physical"
    THEN RewriteResult(h, pn, FALSE, NoErr)
    ELSE IF ~h[pn].spec.physical
    THEN RewriteResult(h, pn, FALSE, NoErr)
    ELSE LET new == Len(h) + 1
         IN RewriteResult(ReplaceNode(Append(h, NewPhysicalNode(h[pn])), pn, new),
                          new, TRUE, NoErr)

\* A registered rule whose transformation fails on every node it is given.
FailingRewrite(h, pn) == RewriteResult(h, pn, FALSE, Err("rewrite", h[pn].id))

Rewrite(rule, h, pn) ==
    IF rule = "physicalConverterRule" THEN ConverterRewrite(h, pn)
    ELSE FailingRewrite(h, pn)

\* ---------------------------------------------------------------- planner construction
\* heuristicPlanner.addRules: append, de-duplicated by rule name.
RECURSIVE addRules(_, _)
addRules(rules, new) ==
    IF new = <<>> THEN rules
    ELSE addRules(IF Head(new) \in Range(rules) THEN rules ELSE Append(rules, Head(new)),
                  Tail(new))

\* heuristicPlanner.clearRules
clearRules(rules) == <<>>

\* The values of the registry map, in the order the range loop yields them.
RECURSIVE RegisteredRules(_)
RegisteredRules(registry) ==
    IF registry = {} THEN <<>>
    ELSE LET r == CHOOSE x \in registry : TRUE
         IN <<r>> \o RegisteredRules(registry \ {r})

WithDefaultMemoryLimit(memBytes) ==
    [op |-> "WithDefaultMemoryLimit", memBytes |-> memBytes, rules |-> <<>>]

OnlyPhysicalRules(rules) ==
    [op |-> "OnlyPhysicalRules", memBytes |-> Zero64, rules |-> rules]

DisableValidation == [op |-> "DisableValidation", memBytes |-> Zero64, rules |-> <<>>]

\* Mutant: OnlyPhysicalRules adds its rules without clearing the rule set.
ApplyOption_NoClear(p, opt) ==
    IF opt.op = "WithDefaultMemoryLimit" THEN [p EXCEPT !.defaultMemoryLimit = opt.memBytes]
    ELSE IF opt.op = "OnlyPhysicalRules"
    THEN [p EXCEPT !.rules = addRules(p.rules, opt.rules)]
    ELSE [p EXCEPT !.disableValidation = TRUE]

\* opt.apply(pp)
ApplyOption(p, opt) ==
    IF opt.op = "WithDefaultMemoryLimit" THEN [p EXCEPT !.defaultMemoryLimit = opt.memBytes]
    ELSE IF opt.op = "OnlyPhysicalRules"
    THEN [p EXCEPT !.rules = addRules(clearRules(p.rules), opt.rules)]
    ELSE [p EXCEPT !.disableValidation = TRUE]

RECURSIVE ApplyOptions(_, _)
ApplyOptions(p, opts) ==
    IF opts = <<>> THEN p ELSE ApplyOptions(ApplyOption(p, Head(opts)), Tail(opts))

\* The planner before any option is applied.
DefaultPlanner(registry) ==
    [rules |-> addRules(addRules(<<>>, RegisteredRules(registry)),
                        << "physicalConverterRule" >>),
     defaultMemoryLimit |-> MaxInt64,
     disableValidation |-> FALSE]

NewPhysicalPlanner(registry, opts) == ApplyOptions(DefaultPlanner(registry), opts)

\* ---------------------------------------------------------------- Plan: rewriting
NoCall ==
    [rule |-> "none", arg |-> 0, node |-> 0, changed |-> FALSE, err |-> NoErr,
     before |-> <<>>]

NoReturn == [plan |-> FALSE, err |-> NoErr]

\* Mutant: the transformed graph is returned together with the error.
ReturnErr_WithPlan(err) == [plan |-> TRUE, err |-> err]

\* return nil, err
ReturnErr(err) == [plan |-> FALSE, err |-> err]

\* return transformedSpec, nil
ReturnPlan == [plan |-> TRUE, err |-> NoErr]

\* Mutant: the error of the heuristic planner is ignored.
AfterHeuristic_IgnoreError(err) == "bounds"

\* Where Plan goes when the heuristic planner returns: out with its error, else
\* on to the bounds walk.
AfterHeuristic(err) == IF err # NoErr THEN "done" ELSE "bounds"

\* The roots after node old was replaced by node new.
ReplaceRoot(roots, old, new) ==
    IF old \in roots THEN (roots \ {old}) \cup {new} ELSE roots

\* The nodes one full pass visits, in order.
PassOrder(p, h, roots) == IF p.rules = <<>> THEN <<>> ELSE BottomUpOrder(h, roots)

\* physicalPlanner.Plan is called on the input graph.
StartPlan ==
    /\ pc = "start"
    /\ pc' = "rewrite"
    /\ todo' = PassOrder(pp, heap, spec.Roots)
    /\ ruleIdx' = 1
    /\ anyChanged' = FALSE
    /\ passes' = 1
    /\ calls' = calls + 1
    /\ UNCHANGED << ruleNameToPhysicalRule, options, applied, pp, heap, spec, input, lastCall, ret >>

\* The record of a Rule.Rewrite call on node n of heap h with result r.
Call(rule, h, n, r) ==
    [rule |-> rule, arg |-> n, node |-> r.node, changed |-> r.changed, err |-> r.err,
     before |-> h]

\* One rule is applied to one node; an error aborts planning with that error.
ApplyRule ==
    /\ pc = "rewrite"
    /\ todo # <<>>
    /\ LET n == Head(todo)
           rule == pp.rules[ruleIdx]
           r == Rewrite(rule, heap, n)
       IN /\ lastCall' = Call(rule, heap, n, r)
          /\ IF r.err # NoErr
             THEN /\ pc' = AfterHeuristic(r.err)
                  /\ ret' = ReturnErr(r.err)
                  /\ UNCHANGED << heap, spec, todo, ruleIdx, anyChanged >>
             ELSE /\ heap' = r.heap
                  /\ spec' = [spec EXCEPT !.Roots = ReplaceRoot(@, n, r.node)]
                  /\ anyChanged' = (anyChanged \/ r.changed)
                  /\ IF ruleIdx < Len(pp.rules)
                     THEN /\ todo' = << r.node >> \o Tail(todo)
                          /\ ruleIdx' = ruleIdx + 1
                     ELSE /\ todo' = Tail(todo)
                          /\ ruleIdx' = 1
                  /\ UNCHANGED << pc, ret >>
    /\ UNCHANGED << ruleNameToPhysicalRule, options, applied, calls, pp, input, passes >>

\* A full pass is over: the fixed point if nothing changed, an error if the
\* safety bound on passes is reached, else another pass.
EndPass ==
    /\ pc = "rewrite"
    /\ todo = <<>>
    /\ IF ~anyChanged
       THEN /\ pc' = AfterHeuristic(NoErr)
            /\ UNCHANGED << todo, passes, ret >>
       ELSE IF passes >= MaxPasses
       THEN /\ pc' = AfterHeuristic(Err("nonTermination", <<>>))
            /\ ret' = ReturnErr(Err("nonTermination", <<>>))
            /\ UNCHANGED << todo, passes >>
       ELSE /\ todo' = PassOrder(pp, heap, spec.Roots)
            /\ passes' = passes + 1
            /\ UNCHANGED << pc, ret >>
    /\ ruleIdx' = 1
    /\ anyChanged' = FALSE
    /\ UNCHANGED << ruleNameToPhysicalRule, options, applied, calls, pp, heap, spec, input, lastCall >>

\* ---------------------------------------------------------------- Plan: bounds
\* The union of the bounds that are set among bs; nil when none is.
UnionBounds(bs) ==
    LET S == { b \in bs : b.set }
    IN IF S = {} THEN NilBounds
       ELSE Bounds(Min({ b.start : b \in S }), Max({ b.stop : b \in S }))

\* ComputeBounds(node): by default the bounds of the predecessors; a node
\* without predecessors keeps the bounds of its own operation.
ComputeBounds(h, n) ==
    IF h[n].preds = <<>> THEN h
    ELSE [h EXCEPT ![n].bounds = UnionBounds({ h[q].bounds : q \in Range(h[n].preds) })]

RECURSIVE WalkBounds(_, _)
WalkBounds(h, order) ==
    IF order = <<>> THEN h ELSE WalkBounds(ComputeBounds(h, Head(order)), Tail(order))

\* The nodes a bottom-up walk can fail on first, for the set of nodes its
\* visitor fails on: a failing node none of whose ancestors fails.
FirstFailures(h, failing) == { f \in failing : Ancestors(h, f) \cap failing = {} }

\* Mutant: CheckIntegrity is skipped.
AfterBounds_SkipIntegrity(p) == IF ~p.disableValidation THEN "validate" ELSE "memquota"

\* Mutant: the disableValidation flag is ignored.
AfterBounds_AlwaysValidate(p) == "integrity"

\* The stage after the bounds walk: validation unless it is disabled.
AfterBounds(p) == IF ~p.disableValidation THEN "integrity" ELSE "memquota"

\* Mutant: the error of the bounds walk is dropped and the walk goes on.
PlanBounds_IgnoreError ==
    /\ pc = "bounds"
    /\ heap' = WalkBounds(heap, BottomUpOrder(heap, spec.Roots))
    /\ pc' = AfterBounds(pp)
    /\ ret' = ret
    /\ UNCHANGED << ruleNameToPhysicalRule, options, applied, calls, pp, spec, input, todo, ruleIdx,
                    anyChanged, passes, lastCall >>

\* transformedSpec.BottomUpWalk(ComputeBounds)
PlanBounds ==
    /\ pc = "bounds"
    /\ LET failing == { n \in Reachable(heap, spec.Roots) : heap[n].spec.boundsErr }
       IN IF failing # {}
          THEN /\ \E f \in FirstFailures(heap, failing) :
                      ret' = ReturnErr(Err("bounds", heap[f].id))
               /\ pc' = "done"
               /\ heap' = heap
          ELSE /\ heap' = WalkBounds(heap, BottomUpOrder(heap, spec.Roots))
               /\ pc' = AfterBounds(pp)
               /\ ret' = ret
    /\ UNCHANGED << ruleNameToPhysicalRule, options, applied, calls, pp, spec, input, todo, ruleIdx,
                    anyChanged, passes, lastCall >>

\* ---------------------------------------------------------------- Plan: validation
\* PlanSpec.CheckIntegrity: every predecessor/successor pair of the graph is
\* recorded on both ends.
IntegrityOK(h, roots) ==
    \A n \in Reachable(h, roots) :
        /\ \A q \in Range(h[n].preds) : n \in Range(h[q].succs)
        /\ \A s \in Range(h[n].succs) : n \in Range(h[s].preds)

PlanCheckIntegrity ==
    /\ pc = "integrity"
    /\ IF IntegrityOK(heap, spec.Roots)
       THEN /\ pc' = "validate"
            /\ ret' = ret
       ELSE /\ pc' = "done"
            /\ ret' = ReturnErr(Err("integrity", <<>>))
    /\ UNCHANGED << ruleNameToPhysicalRule, options, applied, calls, pp, heap, spec, input, todo,
                    ruleIdx, anyChanged, passes, lastCall >>

\* Mutant: a physical node is accepted before its hook is consulted.
ValidateNode_PhysicalFirst(pn) ==
    IF pn.typ = "physical" THEN NoErr
    ELSE IF pn.spec.validator # "none"
    THEN IF pn.spec.validator = "ok" THEN NoErr ELSE Err("postPhysicalValidate", pn.id)
    ELSE Err("incompleteConversion", pn.id)

\* Mutant: a node that is not physical is accepted.
ValidateNode_NoTypeCheck(pn) ==
    IF pn.spec.validator # "none"
    THEN IF pn.spec.validator = "ok" THEN NoErr ELSE Err("postPhysicalValidate", pn.id)
    ELSE NoErr

\* Mutant: the incomplete-conversion error does not carry the node's identifier.
ValidateNode_WrongID(pn) ==
    IF pn.spec.validator # "none"
    THEN IF pn.spec.validator = "ok" THEN NoErr ELSE Err("postPhysicalValidate", pn.id)
    ELSE IF pn.typ # "physical" THEN Err("incompleteConversion", <<>>)
    ELSE NoErr

\* The visitor of validatePhysicalPlan, on node pn.
ValidateNode(pn) ==
    IF pn.spec.validator # "none"
    THEN IF pn.spec.validator = "ok" THEN NoErr ELSE Err("postPhysicalValidate", pn.id)
    ELSE IF pn.typ # "physical" THEN Err("incompleteConversion", pn.id)
    ELSE NoErr

\* validatePhysicalPlan(transformedSpec)
PlanValidate ==
    /\ pc = "validate"
    /\ LET failing == { n \in Reachable(heap, spec.Roots) : ValidateNode(heap[n]) # NoErr }
       IN IF failing # {}
          THEN /\ \E f \in FirstFailures(heap, failing) :
                      ret' = ReturnErr(ValidateNode(heap[f]))
               /\ pc' = "done"
          ELSE /\ pc' = "memquota"
               /\ ret' = ret
    /\ UNCHANGED << ruleNameToPhysicalRule, options, applied, calls, pp, heap, spec, input, todo,
                    ruleIdx, anyChanged, passes, lastCall >>

\* ---------------------------------------------------------------- Plan: quotas
\* Mutant: the default memory limit overwrites a quota the input set.
DefaultMemoryQuota_Always(p, res) == p.defaultMemoryLimit

\* Mutant: the number of roots is added to the quota, zero or not.
DefaultConcurrencyQuota_AddRoots(sp) == sp.Resources.ConcurrencyQuota + Cardinality(sp.Roots)

\* Mutant: the concurrency quota defaults to 1 instead of the number of roots.
DefaultConcurrencyQuota_One(sp) ==
    IF sp.Resources.ConcurrencyQuota = 0 THEN 1 ELSE sp.Resources.ConcurrencyQuota

\* The memory quota after "Update memory quota".
DefaultMemoryQuota(p, res) ==
    IF res.MemoryBytesQuota = Zero64 THEN p.defaultMemoryLimit ELSE res.MemoryBytesQuota

\* The concurrency quota after "Update concurrency quota".
DefaultConcurrencyQuota(sp) ==
    IF sp.Resources.ConcurrencyQuota = 0 THEN Cardinality(sp.Roots)
    ELSE sp.Resources.ConcurrencyQuota

PlanMemoryQuota ==
    /\ pc = "memquota"
    /\ spec' = [spec EXCEPT !.Resources.MemoryBytesQuota = DefaultMemoryQuota(pp, spec.Resources)]
    /\ pc' = "concquota"
    /\ UNCHANGED << ruleNameToPhysicalRule, options, applied, calls, pp, heap, input, todo, ruleIdx,
                    anyChanged, passes, lastCall, ret >>

\* The concurrency quota is defaulted and Plan returns the graph.
PlanConcurrencyQuota ==
    /\ pc = "concquota"
    /\ spec' = [spec EXCEPT !.Resources.ConcurrencyQuota = DefaultConcurrencyQuota(spec)]
    /\ pc' = "done"
    /\ ret' = ReturnPlan
    /\ UNCHANGED << ruleNameToPhysicalRule, options, applied, calls, pp, heap, input, todo, ruleIdx,
                    anyChanged, passes, lastCall >>

\* ---------------------------------------------------------------- inputs
\* The candidate edges of a graph of n nodes: the predecessor has the lower number.
Pairs(n) == { e \in (1..n) \X (1..n) : e[1] < e[2] }

NoEdge == << 0, 0 >>

\* The heap of a graph of n nodes with node types typ, specs sp and edges E;
\* the edge `missing` is recorded by its successor only.
GraphHeap(n, typ, sp, E, missing) ==
    [i \in 1..n |->
        [typ |-> typ[i], bounds |-> Bounds(i, i + 1), id |-> NodeID(i), spec |-> sp[i],
         preds |-> SortedSeq({ j \in 1..n : << j, i >> \in E }),
         succs |-> SortedSeq({ j \in 1..n : << i, j >> \in E \ {missing} })]]

\* The roots: the nodes nothing depends on.
GraphRoots(n, E) == { i \in 1..n : \A j \in 1..n : << i, j >> \notin E }

\* The input graphs of at most maxN nodes: a heap and its roots.
InputGraphs(maxN, lspecs, pspecs) ==
    { [heap |-> GraphHeap(g.n, g.typ, g.sp, g.E, g.missing), roots |-> GraphRoots(g.n, g.E)] :
      g \in UNION { UNION { UNION {
              { [n |-> n, typ |-> typ, sp |-> sp, E |-> E, missing |-> m] :
                  m \in {NoEdge} \cup E,
                  sp \in { f \in [1..n -> lspecs] :
                             \A i \in 1..n : typ[i] = "physical" => f[i] \in pspecs } }
              : E \in SUBSET Pairs(n) }
            : typ \in [1..n -> {"logical", "physical"}] }
          : n \in 0..maxN } }

RECURSIVE SeqsUpTo(_, _)
SeqsUpTo(S, k) ==
    IF k = 0 THEN { <<>> }
    ELSE LET T == SeqsUpTo(S, k - 1)
         IN T \cup { Append(t, x) : t \in T, x \in S }

OptionValues ==
    { WithDefaultMemoryLimit(Zero64), WithDefaultMemoryLimit(Int64(7)),
      DisableValidation, OnlyPhysicalRules(<<>>) }

QuotaValues == { [MemoryBytesQuota |-> m, ConcurrencyQuota |-> c] :
                   m \in { Zero64, Int64(5) }, c \in { 0, 3 } }

\* ---------------------------------------------------------------- specification
Init ==
    /\ ruleNameToPhysicalRule \in SUBSET { "failingRule" }
    /\ options \in SeqsUpTo(OptionValues, MaxOptions)
    /\ applied = Len(options)
    /\ pp = NewPhysicalPlanner(ruleNameToPhysicalRule, options)
    /\ \E g \in InputGraphs(MaxNodes, LogicalSpecs, PhysicalSpecs), res \in QuotaValues :
          /\ heap = g.heap
          /\ spec = [Roots |-> g.roots, Resources |-> res]
    /\ input = [heap |-> heap, spec |-> spec]
    /\ calls = 0
    /\ pc = "start"
    /\ todo = <<>>
    /\ ruleIdx = 1
    /\ anyChanged = FALSE
    /\ passes = 0
    /\ lastCall = NoCall
    /\ ret = NoReturn

Next ==
    \/ StartPlan
    \/ ApplyRule
    \/ EndPass
    \/ PlanBounds
    \/ PlanCheckIntegrity
    \/ PlanValidate
    \/ PlanMemoryQuota
    \/ PlanConcurrencyQuota

Spec == Init /\ [][Next]_vars

\* ---------------------------------------------------------------- Plan, called again
\* The caller passes the graph a successful Plan returned to Plan of the same
\* planner.
PlanAgain ==
    /\ pc = "done"
    /\ ret.plan
    /\ calls < MaxCalls
    /\ pc' = "start"
    /\ input' = [heap |-> heap, spec |-> spec]
    /\ passes' = 0
    /\ lastCall' = NoCall
    /\ ret' = NoReturn
    /\ UNCHANGED << ruleNameToPhysicalRule, options, applied, calls, pp, heap, spec, todo, ruleIdx,
                    anyChanged >>

NextTwice == Next \/ PlanAgain

SpecTwice == Init /\ [][NextTwice]_vars

\* ---------------------------------------------------------------- the rule alone
\* The specs of the graphs the conversion rule is applied to directly.
RuleLogicalSpecs ==
    { ProcSpec(FALSE, "none", FALSE), ProcSpec(TRUE, "none", FALSE),
      ProcSpec(TRUE, "ok", FALSE) }

RulePhysicalSpecs == { ProcSpec(TRUE, "none", FALSE) }

InitRule ==
    /\ ruleNameToPhysicalRule = {}
    /\ options = <<>>
    /\ applied = Len(options)
    /\ pp = NewPhysicalPlanner(ruleNameToPhysicalRule, options)
    /\ \E g \in InputGraphs(MaxRuleNodes, RuleLogicalSpecs, RulePhysicalSpecs) :
          /\ heap = g.heap
          /\ spec = [Roots |-> g.roots,
                     Resources |-> [MemoryBytesQuota |-> Zero64, ConcurrencyQuota |-> 0]]
    /\ input = [heap |-> heap, spec |-> spec]
    /\ calls = 0
    /\ pc = "rule"
    /\ todo = <<>>
    /\ ruleIdx = 1
    /\ anyChanged = FALSE
    /\ passes = 0
    /\ lastCall = NoCall
    /\ ret = NoReturn

\* physicalConverterRule.Rewrite is applied to any node of the graph, while the
\* heap holds at most two nodes for every node a graph can start with.
ApplyConverter ==
    /\ pc = "rule"
    /\ \E n \in Reachable(heap, spec.Roots) :
          LET r == Rewrite("physicalConverterRule", heap, n)
          IN /\ Len(r.heap) <= 2 * MaxRuleNodes
             /\ lastCall' = Call("physicalConverterRule", heap, n, r)
             /\ heap' = r.heap
             /\ spec' = [spec EXCEPT !.Roots = ReplaceRoot(@, n, r.node)]
    /\ UNCHANGED << ruleNameToPhysicalRule, options, applied, calls, pp, input, pc, todo, ruleIdx,
                    anyChanged, passes, ret >>

NextRule == ApplyConverter

SpecRule == InitRule /\ [][NextRule]_vars

\* ---------------------------------------------------------------- construction alone
\* The options NewPhysicalPlanner is given when its option loop is followed
\* step by step.
ConstructionOptions ==
    { WithDefaultMemoryLimit(Zero64), WithDefaultMemoryLimit(Int64(7)), DisableValidation,
      OnlyPhysicalRules(<<>>), OnlyPhysicalRules(<< "failingRule" >>),
      OnlyPhysicalRules(<< "physicalConverterRule" >>),
      OnlyPhysicalRules(<< "physicalConverterRule", "failingRule" >>) }

\* NewPhysicalPlanner has installed the registered rules and the conversion
\* rule and is about to process its options.
InitOptions ==
    /\ ruleNameToPhysicalRule \in SUBSET { "failingRule" }
    /\ options \in SeqsUpTo(ConstructionOptions, MaxOptions)
    /\ applied = 0
    /\ pp = DefaultPlanner(ruleNameToPhysicalRule)
    /\ heap = <<>>
    /\ spec = [Roots |-> {}, Resources |-> [MemoryBytesQuota |-> Zero64, ConcurrencyQuota |-> 0]]
    /\ input = [heap |-> heap, spec |-> spec]
    /\ calls = 0
    /\ pc = "new"
    /\ todo = <<>>
    /\ ruleIdx = 1
    /\ anyChanged = FALSE
    /\ passes = 0
    /\ lastCall = NoCall
    /\ ret = NoReturn

\* One round of "for _, opt := range options { opt.apply(pp) }".
ApplyNextOption ==
    /\ pc = "new"
    /\ applied < Len(options)
    /\ pp' = ApplyOption(pp, options[applied + 1])
    /\ applied' = applied + 1
    /\ UNCHANGED << ruleNameToPhysicalRule, options, calls, heap, spec, input, pc, todo, ruleIdx,
                    anyChanged, passes, lastCall, ret >>

NextOptions == ApplyNextOption

SpecOptions == InitOptions /\ [][NextOptions]_vars

\* ---------------------------------------------------------------- properties
\* The nodes of the graph Plan works on.
Graph == Reachable(heap, spec.Roots)

Done == pc = "done"

Returned == Done /\ ret.plan

\* The nodes that are still logical and whose spec has no validation hook.
StuckNodes == { n \in Graph : heap[n].typ = "logical" /\ heap[n].spec.validator = "none" }

\* Rewriting, bounds propagation and CheckIntegrity did not fail.
ReachedValidation ==
    ret.err.kind \notin { "rewrite", "nonTermination", "bounds", "integrity" }

\* C1: after a successful Plan with validation enabled, every node reachable
\* from a root is a physical node or has a spec whose post-physical validation
\* hook succeeded.
C1_PostCondition ==
    (Returned /\ ~pp.disableValidation) =>
        \A n \in Graph : heap[n].typ = "physical" \/ heap[n].spec.validator = "ok"

\* C1 witness: a plan was returned with validation enabled, holding a
\* logical node admitted by its hook and a physical node without hook.
C1_Witness ==
    /\ Returned /\ ~pp.disableValidation
    /\ \E n \in Graph : heap[n].typ = "logical" /\ heap[n].spec.validator = "ok"
    /\ \E n \in Graph : heap[n].typ = "physical" /\ heap[n].spec.validator = "none"

\* C2 as stated: when validation is reached and some node is still logical
\* without hook, Plan returns no graph and an incomplete-conversion error
\* naming such a node.
C2_Original ==
    (Done /\ ~pp.disableValidation /\ ReachedValidation /\ StuckNodes # {}) =>
        /\ ~ret.plan
        /\ ret.err.kind = "incompleteConversion"
        /\ ret.err.node \in { heap[n].id : n \in StuckNodes }

\* C2 amended: when validation is reached and some node is still logical
\* without hook, Plan returns no graph and an error, which is the
\* incomplete-conversion error naming such a node or the error of another
\* node's failing hook; it is the former when no node of the graph has a
\* failing hook.
C2_Amended ==
    (Done /\ ~pp.disableValidation /\ ReachedValidation /\ StuckNodes # {}) =>
        /\ ~ret.plan
        /\ \/ /\ ret.err.kind = "incompleteConversion"
              /\ ret.err.node \in { heap[n].id : n \in StuckNodes }
           \/ /\ ret.err.kind = "postPhysicalValidate"
              /\ ret.err.node \in { heap[n].id : n \in { m \in Graph : heap[m].spec.validator = "fail" } }
        /\ (\A n \in Graph : heap[n].spec.validator # "fail")
              => ret.err.kind = "incompleteConversion"

\* C2 witness: Plan ended with the incomplete-conversion error of a node
\* that is still logical without hook.
C2_Witness ==
    /\ Done /\ ~pp.disableValidation /\ StuckNodes # {}
    /\ ret = ReturnErr(Err("incompleteConversion", ret.err.node))
    /\ ret.err.node \in { heap[n].id : n \in StuckNodes }

\* Every node with predecessors carries the union of its predecessors' bounds.
BoundsComputed ==
    \A n \in Graph :
        heap[n].preds # <<>> =>
            heap[n].bounds = UnionBounds({ heap[q].bounds : q \in Range(heap[n].preds) })

\* The quotas are the input's where it set them and the defaults elsewhere.
QuotasDefaulted ==
    /\ spec.Resources.MemoryBytesQuota =
          IF input.spec.Resources.MemoryBytesQuota = Zero64 THEN pp.defaultMemoryLimit
          ELSE input.spec.Resources.MemoryBytesQuota
    /\ spec.Resources.ConcurrencyQuota =
          IF input.spec.Resources.ConcurrencyQuota = 0 THEN Cardinality(spec.Roots)
          ELSE input.spec.Resources.ConcurrencyQuota

\* The input nodes that are logical with a spec that is not physical-capable.
InputUnconvertible ==
    { n \in Reachable(input.heap, input.spec.Roots) :
        input.heap[n].typ = "logical" /\ ~input.heap[n].spec.physical }

\* C3: with DisableValidation, Plan runs neither CheckIntegrity nor the
\* validation walk, returns no integrity or validation error, and when
\* rewriting and bounds propagation succeed it returns the graph with every
\* unconvertible logical node still logical, bounds computed and quotas
\* defaulted.
C3_DisableValidation ==
    pp.disableValidation =>
        /\ pc \notin { "integrity", "validate" }
        /\ Done => ret.err.kind \notin { "integrity", "incompleteConversion", "postPhysicalValidate" }
        /\ (Done /\ ret.err.kind \notin { "rewrite", "nonTermination", "bounds" }) =>
              /\ ret = ReturnPlan
              /\ \A n \in InputUnconvertible : n \in Graph /\ heap[n].typ = "logical"
              /\ BoundsComputed
              /\ QuotasDefaulted

\* C3 witness: with validation disabled a graph was returned that holds a
\* logical node without hook whose spec is not physical-capable, its bounds
\* recomputed from its predecessor, in a graph CheckIntegrity would reject.
C3_Witness ==
    /\ Returned /\ pp.disableValidation
    /\ ~IntegrityOK(heap, spec.Roots)
    /\ \E n \in StuckNodes :
          /\ ~heap[n].spec.physical
          /\ heap[n].preds # <<>>
          /\ heap[n].bounds # input.heap[n].bounds

\* The memory limit the options configure: that of the last
\* WithDefaultMemoryLimit option, math.MaxInt64 when there is none.
RECURSIVE ConfiguredLimit(_)
ConfiguredLimit(opts) ==
    IF opts = <<>> THEN MaxInt64
    ELSE IF opts[Len(opts)].op = "WithDefaultMemoryLimit" THEN opts[Len(opts)].memBytes
    ELSE ConfiguredLimit(SubSeq(opts, 1, Len(opts) - 1))

InputQuotasZero ==
    /\ input.spec.Resources.MemoryBytesQuota = Zero64
    /\ input.spec.Resources.ConcurrencyQuota = 0

\* C4: for an input graph with both quotas 0, a successful Plan returns
\* MemoryBytesQuota = the configured default memory limit (math.MaxInt64
\* without a WithDefaultMemoryLimit option) and ConcurrencyQuota = the number
\* of roots of the returned graph.
C4_QuotaDefaulting ==
    (Returned /\ InputQuotasZero) =>
        /\ spec.Resources.MemoryBytesQuota = ConfiguredLimit(options)
        /\ (\A i \in 1..Len(options) : options[i].op # "WithDefaultMemoryLimit")
              => spec.Resources.MemoryBytesQuota = MaxInt64
        /\ spec.Resources.ConcurrencyQuota = Cardinality(spec.Roots)

\* C4 witness: the single logical root N1 with both quotas 0, planned with no
\* option, came back as the single root phys_N1 with ConcurrencyQuota 1 and
\* MemoryBytesQuota math.MaxInt64.
C4_Witness ==
    /\ Returned /\ InputQuotasZero /\ options = <<>>
    /\ Len(input.heap) = 1 /\ input.heap[1].typ = "logical" /\ input.heap[1].id = NodeID(1)
    /\ spec.Roots = {2}
    /\ heap[2].typ = "physical" /\ heap[2].id = << "phys_", "N", "1" >>
    /\ spec.Resources = [MemoryBytesQuota |-> MaxInt64, ConcurrencyQuota |-> 1]

\* C5: a quota the input sets to a non-zero value is left unchanged by a
\* successful Plan, each quota independently of the other.
C5_ExplicitQuotasKept ==
    Returned =>
        /\ input.spec.Resources.MemoryBytesQuota # Zero64
              => spec.Resources.MemoryBytesQuota = input.spec.Resources.MemoryBytesQuota
        /\ input.spec.Resources.ConcurrencyQuota # 0
              => spec.Resources.ConcurrencyQuota = input.spec.Resources.ConcurrencyQuota

\* C5 witness: a plan was returned whose input set the memory quota but not
\* the concurrency quota; the memory quota is kept although it differs from
\* the planner's default, and the concurrency quota is the root count, which
\* differs from the other explicit value.
C5_Witness ==
    /\ Returned
    /\ input.spec.Resources = [MemoryBytesQuota |-> Int64(5), ConcurrencyQuota |-> 0]
    /\ pp.defaultMemoryLimit = Int64(7)
    /\ spec.Resources = [MemoryBytesQuota |-> Int64(5), ConcurrencyQuota |-> 2]

\* C6 as stated: after any successful Plan both quotas are non-zero.
C6_NonZeroQuotas ==
    Returned =>
        /\ spec.Resources.MemoryBytesQuota # Zero64
        /\ spec.Resources.ConcurrencyQuota # 0

\* The argument of the last Rewrite call, as it was before the call.
CallArg == lastCall.before[lastCall.arg]

ConverterCalled == lastCall.rule = "physicalConverterRule"

\* C7: the conversion rule applied to a physical node returns the same node
\* with changed = false and no error, and leaves every node and edge as it was.
C7_PhysicalUnchanged ==
    (ConverterCalled /\ CallArg.typ = "physical") =>
        /\ lastCall.node = lastCall.arg
        /\ ~lastCall.changed
        /\ lastCall.err = NoErr
        /\ heap = lastCall.before

\* C7 witness: the rule was applied to a node the rule itself had produced.
C7_Witness ==
    /\ ConverterCalled
    /\ lastCall.arg > Len(input.heap)
    /\ CallArg.typ = "physical"
    /\ Head(CallArg.id) = "phys_"
    /\ ~lastCall.changed

\* C8: the conversion rule applied to a logical node with a physical-capable
\* spec returns a new physical node with changed = true, whose id is "phys_"
\* followed by the logical node's id, with the logical node's bounds and spec;
\* the new node has the logical node's edges and no predecessor or successor
\* of the logical node refers to the logical node any more.
C8_Conversion ==
    (ConverterCalled /\ CallArg.typ = "logical" /\ CallArg.spec.physical) =>
        /\ lastCall.changed /\ lastCall.err = NoErr
        /\ lastCall.node \notin 1..Len(lastCall.before)
        /\ lastCall.node \in 1..Len(heap)
        /\ heap[lastCall.node].typ = "physical"
        /\ heap[lastCall.node].id = << "phys_" >> \o CallArg.id
        /\ heap[lastCall.node].bounds = CallArg.bounds
        /\ heap[lastCall.node].spec = CallArg.spec
        /\ heap[lastCall.node].preds = CallArg.preds
        /\ heap[lastCall.node].succs = CallArg.succs
        /\ \A q \in Range(CallArg.preds) : lastCall.arg \notin Range(heap[q].succs)
        /\ \A t \in Range(CallArg.succs) : lastCall.arg \notin Range(heap[t].preds)
        /\ heap[lastCall.arg].preds = <<>> /\ heap[lastCall.arg].succs = <<>>

\* C8 witness: a logical node with bounds and a predecessor was converted.
C8_Witness ==
    /\ ConverterCalled /\ lastCall.changed
    /\ CallArg.typ = "logical" /\ CallArg.bounds.set
    /\ CallArg.preds # <<>>
    /\ lastCall.arg \in Range(lastCall.before[CallArg.preds[1]].succs)

\* Every edge of h is recorded by both of its ends.
Symmetric(h) ==
    \A n \in 1..Len(h) :
        /\ \A q \in Range(h[n].preds) : n \in Range(h[q].succs)
        /\ \A t \in Range(h[n].succs) : n \in Range(h[t].preds)

\* The (predecessor, successor) pairs of h, as the successors and as the
\* predecessors record them.
PredPairs(h) == UNION { { << q, n >> : q \in Range(h[n].preds) } : n \in 1..Len(h) }

SuccPairs(h) == UNION { { << n, t >> : t \in Range(h[n].succs) } : n \in 1..Len(h) }

\* Node x after the last call's replacement.
Moved(x) == IF x = lastCall.arg THEN lastCall.node ELSE x

\* C9: a replacement made by the conversion rule in a graph whose edges are
\* mutually recorded redirects every pair from the replaced node to the new
\* one: the pairs after are the pairs before, redirected; every edge list
\* keeps its length and order; every pair is still mutually recorded.
C9_EdgePreservation ==
    (ConverterCalled /\ lastCall.changed /\ Symmetric(lastCall.before)) =>
        /\ PredPairs(heap) = { << Moved(e[1]), Moved(e[2]) >> : e \in PredPairs(lastCall.before) }
        /\ SuccPairs(heap) = { << Moved(e[1]), Moved(e[2]) >> : e \in SuccPairs(lastCall.before) }
        /\ \A a \in 1..Len(lastCall.before) :
              /\ heap[Moved(a)].preds = [i \in 1..Len(lastCall.before[a].preds) |->
                                            Moved(lastCall.before[a].preds[i])]
              /\ heap[Moved(a)].succs = [i \in 1..Len(lastCall.before[a].succs) |->
                                            Moved(lastCall.before[a].succs[i])]
        /\ Symmetric(heap)

\* C9 witness: the replaced node had a predecessor and a successor, each
\* holding it in its edge list.
C9_Witness ==
    /\ ConverterCalled /\ lastCall.changed /\ Symmetric(lastCall.before)
    /\ CallArg.preds # <<>> /\ CallArg.succs # <<>>
    /\ lastCall.node \in Range(heap[CallArg.preds[1]].succs)
    /\ lastCall.node \in Range(heap[CallArg.succs[1]].preds)

\* C10: Plan returns either a graph and no error or an error and no graph;
\* nothing is returned before Plan ends.
C10_GraphXorError ==
    /\ Done => \/ ret.plan /\ ret.err = NoErr
               \/ ~ret.plan /\ ret.err # NoErr
    /\ ~Done => ret = NoReturn

\* C10 witness: Plan ended with the error of CheckIntegrity and no graph.
C10_Witness == Done /\ ~ret.plan /\ ret.err.kind = "integrity"

\* The logical nodes of the graph whose spec is physical-capable: the nodes the
\* conversion rule still has to convert.
Convertible(h, roots) ==
    { n \in Reachable(h, roots) : h[n].typ = "logical" /\ h[n].spec.physical }

\* The planner runs the conversion rule alone.
ConverterOnly == pp.rules = << "physicalConverterRule" >>

\* One Rewrite call of the heuristic planner is about to be made.
RewriteStep == pc = "rewrite" /\ todo # <<>>

\* C11: on a finite acyclic graph whose edges are mutually recorded, planning
\* with the rule sets of the planner (none of which oscillates) never runs
\* into the safety bound on passes; with the conversion rule alone rewriting
\* is over after two passes at the latest and leaves no node that a further
\* pass would change. With the conversion rule alone every call that reports a change
\* lowers the number of logical physical-capable nodes by one, and a call that
\* reports none leaves it as it is.
C11_Termination ==
    /\ [](Symmetric(input.heap) =>
            /\ ret.err.kind # "nonTermination"
            /\ (ConverterOnly /\ pc \notin { "start", "rewrite" }) =>
                  /\ Convertible(heap, spec.Roots) = {}
                  /\ passes <= 2)
    /\ [][(RewriteStep /\ ConverterOnly /\ Symmetric(input.heap)) =>
            Cardinality(Convertible(heap', spec'.Roots)) =
                Cardinality(Convertible(heap, spec.Roots)) - (IF lastCall'.changed THEN 1 ELSE 0)]_vars

\* C11 witness: the conversion rule alone converted both nodes of a two-node
\* chain in the first pass, and the second pass made no change.
C11_Witness ==
    /\ pc = "bounds" /\ ConverterOnly /\ Symmetric(input.heap)
    /\ passes = 2 /\ ~anyChanged
    /\ Cardinality(Convertible(input.heap, input.spec.Roots)) = 2
    /\ Convertible(heap, spec.Roots) = {}
    /\ \E n \in Graph : heap[n].preds # <<>>

\* The stage that follows stage s when s succeeded, with validation disabled
\* (dv) or not.
StageAfter(s, dv) ==
    CASE s = "start" -> "rewrite"
      [] s = "rewrite" -> "bounds"
      [] s = "bounds" -> IF dv THEN "memquota" ELSE "integrity"
      [] s = "integrity" -> "validate"
      [] s = "validate" -> "memquota"
      [] s = "memquota" -> "concquota"
      [] s = "concquota" -> "done"

\* The stages that can fail.
FailingStages == { "rewrite", "bounds", "integrity", "validate" }

\* C12: within one Plan call the stages follow each other in the order
\* rewriting, bounds walk, CheckIntegrity and validation walk (both skipped
\* when validation is disabled), memory quota, concurrency quota. A stage is
\* left for the next one only with no error recorded, a failing stage ends the
\* call with an error and no graph, nothing happens after the call ended, the
\* graph changes only while rewriting or walking bounds, and each quota
\* changes only in its own stage.
C12_StageOrder ==
    [][/\ pc # "done"
       /\ pc' # pc =>
             \/ /\ pc' = StageAfter(pc, pp.disableValidation)
                /\ ret'.err = NoErr
                /\ ret'.plan <=> pc = "concquota"
             \/ /\ pc \in FailingStages /\ pc' = "done"
                /\ ret'.err # NoErr /\ ~ret'.plan
       /\ pc' = pc => pc = "rewrite" /\ ret' = NoReturn
       /\ heap' # heap => pc \in { "rewrite", "bounds" }
       /\ spec'.Roots # spec.Roots => pc = "rewrite"
       /\ spec'.Resources.MemoryBytesQuota # spec.Resources.MemoryBytesQuota => pc = "memquota"
       /\ spec'.Resources.ConcurrencyQuota # spec.Resources.ConcurrencyQuota => pc = "concquota"
      ]_vars

\* C12 witness: a call with validation enabled went through every stage: a
\* node was converted, a node got the bounds of its predecessor, both quotas
\* were defaulted, and the graph was returned.
C12_Witness ==
    /\ Returned /\ ~pp.disableValidation
    /\ passes = 2
    /\ \E n \in Graph : heap[n].typ = "physical" /\ Len(heap) > Len(input.heap)
    /\ \E n \in Graph : heap[n].preds # <<>> /\ heap[n].bounds = heap[heap[n].preds[1]].bounds
    /\ InputQuotasZero
    /\ spec.Resources.MemoryBytesQuota = pp.defaultMemoryLimit
    /\ spec.Resources.ConcurrencyQuota = Cardinality(spec.Roots)

\* The last Rewrite call returned an error.
RewriteFailed == lastCall # NoCall /\ lastCall.err # NoErr

\* C13: when a rule's Rewrite returns an error, planning is over at once and
\* Plan returns that same error and no graph: the nodes that were still to be
\* visited in the pass stay unvisited, the graph is as it was when the failing
\* call was made (no bounds were computed on it), and the quotas are those of
\* the input (none was defaulted).
C13_RewriteErrorAborts ==
    RewriteFailed =>
        /\ Done
        /\ ret = [plan |-> FALSE, err |-> lastCall.err]
        /\ todo # <<>> /\ Head(todo) = lastCall.arg
        /\ heap = lastCall.before
        /\ spec.Resources = input.spec.Resources

\* C13 witness: a rule failed on the first node of a two-node graph with zero
\* quotas; the second node was never visited.
C13_Witness ==
    /\ RewriteFailed /\ Done
    /\ lastCall.err.kind = "rewrite"
    /\ Len(todo) = 2
    /\ InputQuotasZero

\* The nodes of the graph without predecessors that n depends on, n included.
Sources(n) == { l \in Ancestors(heap, n) \cup {n} : heap[l].preds = <<>> }

\* The nodes of the graph whose bounds visitor fails.
BoundsFailing == { n \in Graph : heap[n].spec.boundsErr }

\* The bounds walk is over and did not fail.
BoundsWalked == pc \in { "integrity", "validate", "memquota", "concquota" } \/ Returned

\* C14: the order of the bounds walk holds every node of the rewritten graph
\* exactly once, every predecessor of a node before the node. After a walk
\* that did not fail no visitor of the graph fails, and the bounds of every
\* node with predecessors are the union of its predecessors' bounds, which is
\* the union of the bounds of the predecessor-less nodes it depends on: no
\* successor contributes. A walk that fails ends Plan with the error of a
\* failing node none of whose ancestors fails, no graph, and the input's quotas.
C14_BoundsWalk ==
    /\ pc = "bounds" =>
          LET order == BottomUpOrder(heap, spec.Roots)
          IN /\ Range(order) = Graph
             /\ Len(order) = Cardinality(Graph)
             /\ \A i \in 1..Len(order) :
                   Range(heap[order[i]].preds) \subseteq { order[j] : j \in 1..(i - 1) }
    /\ BoundsWalked =>
          /\ BoundsFailing = {}
          /\ BoundsComputed
          /\ \A n \in Graph :
                heap[n].bounds = UnionBounds({ heap[l].bounds : l \in Sources(n) })
    /\ ret.err.kind = "bounds" =>
          /\ Done /\ ~ret.plan
          /\ \E f \in BoundsFailing :
                /\ ret.err.node = heap[f].id
                /\ Ancestors(heap, f) \cap BoundsFailing = {}
          /\ spec.Resources = input.spec.Resources

\* C14 witness: a returned graph in which a node carries the bounds of its
\* predecessor, the first node of the input, instead of the bounds it came with.
C14_Witness ==
    /\ Returned
    /\ \E n \in Graph :
          /\ heap[n].preds # <<>>
          /\ heap[n].bounds = heap[heap[n].preds[1]].bounds
          /\ heap[n].bounds = Bounds(1, 2)

\* Plan with validation enabled is over and got as far as the validation walk.
ValidationDone == Done /\ ~pp.disableValidation /\ ReachedValidation

\* The error is one of the validation walk.
ValidationError == ret.err.kind \in { "incompleteConversion", "postPhysicalValidate" }

\* The node of the graph the error names.
ErrorNodes == { n \in Graph : heap[n].id = ret.err.node }

\* C15 as stated: the validation walk accepts the graph whenever every node
\* is physical or has a succeeding hook, and a node it rejects is not physical
\* and has no succeeding hook.
C15_Original ==
    ValidationDone =>
        /\ (\A n \in Graph : heap[n].typ = "physical" \/ heap[n].spec.validator = "ok")
               => Returned
        /\ ValidationError =>
               \E f \in ErrorNodes : heap[f].typ # "physical" /\ heap[f].spec.validator # "ok"

\* C15, amended: the validation walk consults the hook of a node first and the
\* node's type only when its spec has no hook. It accepts the graph exactly
\* when every node has a succeeding hook, or has no hook and is physical; it
\* rejects a node whose hook fails, physical or not, with the hook's error,
\* and a node without hook that is not physical with the incomplete-conversion
\* error.
C15_Amended ==
    ValidationDone =>
        /\ Returned <=>
              \A n \in Graph : \/ heap[n].spec.validator = "ok"
                               \/ heap[n].spec.validator = "none" /\ heap[n].typ = "physical"
        /\ ~Returned =>
              /\ ValidationError
              /\ \E f \in ErrorNodes :
                    \/ /\ heap[f].spec.validator = "fail"
                       /\ ret.err.kind = "postPhysicalValidate"
                    \/ /\ heap[f].spec.validator = "none" /\ heap[f].typ # "physical"
                       /\ ret.err.kind = "incompleteConversion"

\* C15 witness: every node of the graph is physical and validation failed on
\* the failing hook of a node the conversion rule made physical.
C15_Witness ==
    /\ ValidationDone /\ ~Returned
    /\ ret.err.kind = "postPhysicalValidate"
    /\ \A n \in Graph : heap[n].typ = "physical"
    /\ \E f \in ErrorNodes : Len(heap[f].id) = 3 /\ heap[f].spec.validator = "fail"

\* C16: the conversion rule applied to a logical node whose spec is not
\* physical-capable returns the same node with changed = false and no error;
\* the heap holds the same nodes with the same edges afterwards (none was
\* created), and the roots are the same. The rule reports a change exactly
\* when the node it is applied to is logical and its spec is physical-capable.
C16_Defer ==
    [][pc = "rule" =>
         LET pn == heap[lastCall'.arg]
         IN /\ lastCall'.rule = "physicalConverterRule"
            /\ lastCall'.before = heap
            /\ lastCall'.changed <=> (pn.typ = "logical" /\ pn.spec.physical)
            /\ (pn.typ = "logical" /\ ~pn.spec.physical) =>
                  /\ lastCall'.node = lastCall'.arg
                  /\ ~lastCall'.changed
                  /\ lastCall'.err = NoErr
                  /\ heap' = heap
                  /\ spec' = spec
      ]_vars

\* C16 witness: the rule deferred on a root with a predecessor, logical and
\* not physical-capable, after it had converted another node of the graph.
C16_Witness ==
    /\ ConverterCalled
    /\ CallArg.typ = "logical" /\ ~CallArg.spec.physical
    /\ ~lastCall.changed /\ lastCall.node = lastCall.arg
    /\ lastCall.arg \in spec.Roots
    /\ CallArg.preds # <<>>
    /\ Len(heap) > Len(input.heap)

\* The options applied so far.
AppliedOptions == SubSeq(options, 1, applied)

\* The positions of the OnlyPhysicalRules options among the first k options.
OnlyRulesAt(k) == { i \in 1..k : options[i].op = "OnlyPhysicalRules" }

\* C17: before any option is applied the planner holds the registered rules
\* followed by the conversion rule, each once. After the options applied so
\* far, the rule set is exactly the rules of the last OnlyPhysicalRules
\* option among them, in its order, whatever options followed it, and the
\* initial rule set when there is none; the memory limit is that of the last
\* WithDefaultMemoryLimit option (math.MaxInt64 without one); validation is
\* disabled exactly when a DisableValidation option was applied. When all
\* options are applied the planner is the one NewPhysicalPlanner returns.
C17_Construction ==
    pc = "new" =>
        /\ applied = 0 =>
              /\ Range(pp.rules) = ruleNameToPhysicalRule \cup { "physicalConverterRule" }
              /\ Len(pp.rules) = Cardinality(ruleNameToPhysicalRule) + 1
              /\ pp.rules[Len(pp.rules)] = "physicalConverterRule"
        /\ pp.rules = IF OnlyRulesAt(applied) = {}
                      THEN DefaultPlanner(ruleNameToPhysicalRule).rules
                      ELSE options[Max(OnlyRulesAt(applied))].rules
        /\ pp.defaultMemoryLimit = ConfiguredLimit(AppliedOptions)
        /\ pp.disableValidation <=> \E i \in 1..applied : options[i].op = "DisableValidation"
        /\ applied = Len(options) => pp = NewPhysicalPlanner(ruleNameToPhysicalRule, options)

\* C17 witness: with a registered rule, OnlyPhysicalRules left the conversion
\* rule alone, and an option applied after it did not bring the registered
\* rule back.
C17_Witness ==
    /\ pc = "new" /\ applied = 2
    /\ ruleNameToPhysicalRule = { "failingRule" }
    /\ options[1] = OnlyPhysicalRules(<< "physicalConverterRule" >>)
    /\ options[2].op = "WithDefaultMemoryLimit"
    /\ pp.rules = << "physicalConverterRule" >>

\* The identifier was given the prefix of the conversion rule twice.
TwiceConverted(id) == Len(id) >= 2 /\ id[1] = "phys_" /\ id[2] = "phys_"

\* C18: a Plan call of a planner with the conversion rule alone on the graph
\* a successful Plan call of that planner returned succeeds, and the graph is
\* at every point of the call and at its end the graph it was given: the same
\* nodes with the same identifiers, edges and bounds, none converted a second
\* time, the same roots and the same quotas.
C18_Idempotent ==
    (calls >= 2 /\ ConverterOnly) =>
        /\ heap = input.heap
        /\ spec = input.spec
        /\ \A n \in 1..Len(heap) : ~TwiceConverted(heap[n].id)
        /\ ret.err = NoErr
        /\ Done => ret = ReturnPlan

\* C18 witness: the second call returned a graph of a converted node and its
\* converted predecessor, with the quotas the first call had defaulted.
C18_Witness ==
    /\ calls = 2 /\ Done /\ ret.plan /\ ConverterOnly
    /\ \E n \in Graph :
          /\ Head(heap[n].id) = "phys_"
          /\ heap[n].preds # <<>>
          /\ Head(heap[heap[n].preds[1]].id) = "phys_"
    /\ spec.Resources.MemoryBytesQuota = MaxInt64
    /\ spec.Resources.ConcurrencyQuota = Cardinality(spec.Roots)
    /\ lastCall # NoCall

====
